---------------------------- MODULE Spec2Model ----------------------------
(***************************************************************************)
(* A model of app/hello.go of uluyol/xkcdfeed: the fetch / rewrite / parse *)
(* / cache pipeline (getUpstreamAtom, cachingGetUpstreamAtom) and the two  *)
(* handlers (atomHandler, mainHandler).                                    *)
(*                                                                         *)
(* Byte slices and Go strings are TLA+ strings; the regular expressions,   *)
(* encoding/xml and html.UnescapeString are computed character by          *)
(* character on them.  The XML reader covers elements, attributes,         *)
(* character data with entity references and processing instructions; it  *)
(* does not cover comments, CDATA sections and DOCTYPE, which no modelled  *)
(* input contains.                                                         *)
(***************************************************************************)
EXTENDS Integers, Sequences, FiniteSets, TLC

(***************************************************************************)
(* Strings                                                                 *)
(***************************************************************************)
Ch(s, i) == SubSeq(s, i, i)

\* s[i:] in Go, with 1-based i
From(s, i) == SubSeq(s, i, Len(s))

\* p occurs in s at position i
At(s, i, p) == i >= 1 /\ i + Len(p) - 1 <= Len(s) /\ SubSeq(s, i, i + Len(p) - 1) = p

\* the least j >= i such that p occurs in s at j, or 0
FindStr(s, i, p) ==
    IF \E j \in i..(Len(s) - Len(p) + 1) : At(s, j, p)
    THEN CHOOSE j \in i..(Len(s) - Len(p) + 1) :
            At(s, j, p) /\ \A k \in i..(j - 1) : ~At(s, k, p)
    ELSE 0

\* the least j >= i such that s[j] is one of the characters cs, or 0
FindAny(s, i, cs) ==
    IF \E j \in i..Len(s) : Ch(s, j) \in cs
    THEN CHOOSE j \in i..Len(s) : Ch(s, j) \in cs /\ \A k \in i..(j - 1) : Ch(s, k) \notin cs
    ELSE 0

\* the least j >= i such that s[j] is none of the characters cs, or Len(s)+1
SkipAny(s, i, cs) ==
    IF \E j \in i..Len(s) : Ch(s, j) \notin cs
    THEN CHOOSE j \in i..Len(s) : Ch(s, j) \notin cs /\ \A k \in i..(j - 1) : Ch(s, k) \in cs
    ELSE Len(s) + 1

Contains(s, p) == FindStr(s, 1, p) # 0

(***************************************************************************)
(* The regular expressions of hello.go:46-50                               *)
(***************************************************************************)
\* altExp = `alt="[^"]*"`: the match whose alt=" is at a (0: none) and whose
\* closing quote is at q (0: none)
altExpMatch(s, a, q) == IF a = 0 \/ q = 0 THEN "" ELSE SubSeq(s, a, q)

\* the closing quote of the match whose alt=" is at a: [^"]* is greedy and
\* cannot cross a quote, so it is the first quote after alt="
altExpEnd(s, a) == IF a = 0 THEN 0 ELSE FindStr(s, a + 5, "\"")

\* altExp.FindString(s): the leftmost match, or "".  An alt=" with no quote
\* after it leaves none after any later alt=" either.
altExpFindStringAt(s, a) == altExpMatch(s, a, altExpEnd(s, a))

altExpFindString(s) == altExpFindStringAt(s, FindStr(s, 1, "alt=\""))

\* the slice that keeps the closing quote: s[5:]
AltTextOfKeepQuote(s) == IF s = "" THEN s ELSE SubSeq(s, 6, Len(s))

\* (*Entry).AltText on e.Summary.Body, hello.go:52-58: s[5 : len(s)-1]
AltTextOf(s) == IF s = "" THEN s ELSE SubSeq(s, 6, Len(s) - 1)

AltText(body) == AltTextOf(altExpFindString(body))

\* httpExp = `http://(imgs\.)?xkcd.com`: what the group (imgs\.)? matches
\* after the http:// at position i; the dot of xkcd.com is unescaped and
\* matches any character but a newline
xkcdAt(s, i) == At(s, i, "xkcd") /\ i + 4 <= Len(s) /\ Ch(s, i + 4) # "\n" /\ At(s, i + 5, "com")

httpExpGroup(s, i) == IF At(s, i + 7, "imgs.") /\ xkcdAt(s, i + 12) THEN "imgs." ELSE ""

\* the length of the match of httpExp at the http:// at position i, or 0
httpExpMatchLen(s, i) ==
    IF At(s, i + 7, "imgs.") /\ xkcdAt(s, i + 12) THEN 20
    ELSE IF xkcdAt(s, i + 7) THEN 15
    ELSE 0

\* the replacement without the group: "https://xkcd.com"
httpsReplacementNoGroup(s, i) == "https://xkcd.com"

\* httpsReplacement = "https://${1}xkcd.com", expanded for the match at i
httpsReplacement(s, i) == "https://" \o httpExpGroup(s, i) \o "xkcd.com"

\* httpExp.ReplaceAll(b, httpsReplacement), hello.go:79: the successive
\* leftmost non-overlapping matches, each replaced.  From position i, the
\* text copied so far starting at c, with the next http:// at h.
RECURSIVE ReplaceAllFrom(_, _, _)
ReplaceAllAt(s, c, h) ==
    IF h = 0 THEN From(s, c)
    ELSE IF httpExpMatchLen(s, h) = 0 THEN ReplaceAllFrom(s, c, h + 1)
    ELSE SubSeq(s, c, h - 1) \o httpsReplacement(s, h)
             \o ReplaceAllFrom(s, h + httpExpMatchLen(s, h), h + httpExpMatchLen(s, h))

ReplaceAllFrom(s, c, i) == ReplaceAllAt(s, c, FindStr(s, i, "http://"))

ReplaceAll(b) == ReplaceAllFrom(b, 1, 1)

(***************************************************************************)
(* encoding/xml and html, as hello.go uses them                            *)
(***************************************************************************)
AtomNS == "http://www.w3.org/2005/Atom"

xmlHeader == "<?xml version=\"1.0\" encoding=\"UTF-8\"?>\n"

Space == {" ", "\n", "\t", "\r"}

\* the characters xml.EscapeText replaces, and what it writes for each
EscapeOf(c) ==
    CASE c = "\"" -> "&#34;"
      [] c = "'"  -> "&#39;"
      [] c = "&"  -> "&amp;"
      [] c = "<"  -> "&lt;"
      [] c = ">"  -> "&gt;"
      [] c = "\t" -> "&#x9;"
      [] c = "\n" -> "&#xA;"
      [] c = "\r" -> "&#xD;"

Escaped == {"\"", "'", "&", "<", ">", "\t", "\n", "\r"}

RECURSIVE EscapeFrom(_, _)
EscapeAt(s, i, m) ==
    IF m = 0 THEN From(s, i)
    ELSE SubSeq(s, i, m - 1) \o EscapeOf(Ch(s, m)) \o EscapeFrom(s, m + 1)

EscapeFrom(s, i) == EscapeAt(s, i, FindAny(s, i, Escaped))

\* xml.EscapeText, which Marshal applies to character data and attribute values
EscapeText(s) == EscapeFrom(s, 1)

\* the entity references the decoder resolves: the predefined ones and, of the
\* character references, those EscapeText writes and that of the slash
Entities == {"lt", "gt", "amp", "quot", "apos", "#34", "#39", "#47", "#x9", "#xA", "#xD"}

EntityChar(e) ==
    CASE e = "lt"   -> "<"
      [] e = "gt"   -> ">"
      [] e = "amp"  -> "&"
      [] e \in {"quot", "#34"} -> "\""
      [] e \in {"apos", "#39"} -> "'"
      [] e = "#47"  -> "/"
      [] e = "#x9"  -> "\t"
      [] e = "#xA"  -> "\n"
      [] e = "#xD"  -> "\r"

Fail == [ok |-> FALSE, v |-> ""]

\* r with p before its text
Prepend(p, r) == IF r.ok THEN [r EXCEPT !.v = p \o @] ELSE Fail

\* Decoder.text: character data or an attribute value with its entity
\* references resolved; a bare & or an unknown entity is a syntax error.
\* From position i, the next & being at m and the ; after it at e.
RECURSIVE UnescapeFrom(_, _)
UnescapeAt(s, i, m, e) ==
    IF m = 0 THEN [ok |-> TRUE, v |-> From(s, i)]
    ELSE IF e = 0 \/ SubSeq(s, m + 1, e - 1) \notin Entities THEN Fail
    ELSE Prepend(SubSeq(s, i, m - 1) \o EntityChar(SubSeq(s, m + 1, e - 1)),
                 UnescapeFrom(s, e + 1))

UnescapeAmp(s, i, m) == UnescapeAt(s, i, m, IF m = 0 THEN 0 ELSE FindStr(s, m + 1, ";"))

UnescapeFrom(s, i) == UnescapeAmp(s, i, FindStr(s, i, "&"))

\* a carriage return (with a following newline) in character data reads as a newline
RECURSIVE NormalizeFrom(_, _)
NormalizeAt(s, i, m) ==
    IF m = 0 THEN From(s, i)
    ELSE SubSeq(s, i, m - 1) \o "\n"
             \o NormalizeFrom(s, IF At(s, m + 1, "\n") THEN m + 2 ELSE m + 1)

NormalizeFrom(s, i) == NormalizeAt(s, i, FindStr(s, i, "\r"))

Unescape(s) == UnescapeFrom(NormalizeFrom(s, 1), 1)

NameOK(n) == n # "" /\ FindAny(n, 1, Space \cup {"<", ">", "/", "=", "\"", "'", "&"}) = 0

NoAttr == [href |-> "", rel |-> "", type |-> "", lang |-> "", xmlns |-> ""]

\* the struct fields an attribute can be stored in: Href `xml:"href,attr"`,
\* Rel `xml:"rel,attr"`, Type `xml:"type,attr"`, Lang in the xml name space;
\* xmlns gives the element its name space
AttrKey(n) ==
    CASE n = "href"     -> "href"
      [] n = "rel"      -> "rel"
      [] n = "type"     -> "type"
      [] n = "xml:lang" -> "lang"
      [] n = "xmlns"    -> "xmlns"
      [] OTHER          -> ""

NoTag == [ok |-> FALSE, kind |-> "", name |-> "", attr |-> NoAttr, at |-> 0, next |-> 0]

Tag(kind, name, attr, next) ==
    [ok |-> TRUE, kind |-> kind, name |-> name, attr |-> attr, at |-> 0, next |-> next]

\* attr with the attribute an = v, when a field takes it
SetAttr(attr, an, v) ==
    IF AttrKey(an) = "" THEN attr ELSE [attr EXCEPT ![AttrKey(an)] = v]

\* the attributes of a start tag from position i, up to its > or />
RECURSIVE ReadAttrs(_, _, _, _)
\* the attribute an, whose value v ends at the quote at c
ReadAttrValue(s, an, v, c, name, attr) ==
    IF ~v.ok THEN NoTag ELSE ReadAttrs(s, c + 1, name, SetAttr(attr, an, v.v))

\* the attribute whose name starts at j, its = at eq and its closing quote at c
ReadAttr(s, j, eq, c, name, attr) ==
    IF eq = 0 \/ c = 0 \/ ~NameOK(SubSeq(s, j, eq - 1))
       \/ Contains(SubSeq(s, eq + 2, c - 1), "<")
    THEN NoTag
    ELSE ReadAttrValue(s, SubSeq(s, j, eq - 1), Unescape(SubSeq(s, eq + 2, c - 1)), c,
                       name, attr)

\* the closing quote of the attribute value whose = is at eq
AttrEnd(s, eq) ==
    IF eq # 0 /\ Ch(s, eq + 1) \in {"\"", "'"} THEN FindStr(s, eq + 2, Ch(s, eq + 1)) ELSE 0

ReadAttrName(s, j, eq, name, attr) == ReadAttr(s, j, eq, AttrEnd(s, eq), name, attr)

\* j is the first position after the white space at i
ReadAttrsAt(s, i, j, name, attr) ==
    IF At(s, j, ">") THEN Tag("start", name, attr, j + 1)
    ELSE IF At(s, j, "/>") THEN Tag("empty", name, attr, j + 2)
    ELSE IF j = i THEN NoTag
    ELSE ReadAttrName(s, j, FindStr(s, j, "="), name, attr)

ReadAttrs(s, i, name, attr) == ReadAttrsAt(s, i, SkipAny(s, i, Space), name, attr)

\* <?...?> from position i, ending at e
ReadPI(e) == IF e = 0 THEN NoTag ELSE Tag("pi", "", NoAttr, e + 2)

\* </n > from position i, its > at e
ReadEndTag(s, i, n, e) ==
    IF e = 0 \/ ~NameOK(n) \/ SkipAny(s, i + 2 + Len(n), Space) # e THEN NoTag
    ELSE Tag("end", n, NoAttr, e + 1)

\* <name ...> from position i, the name ending before e
ReadStartTag(s, i, e) ==
    IF e = 0 \/ ~NameOK(SubSeq(s, i + 1, e - 1)) THEN NoTag
    ELSE ReadAttrs(s, e, SubSeq(s, i + 1, e - 1), NoAttr)

\* the markup that starts at the < at position i: a start tag, an empty-element
\* tag, an end tag or a processing instruction
ReadTag(s, i) ==
    IF At(s, i, "<?") THEN ReadPI(FindStr(s, i + 2, "?>"))
    ELSE IF At(s, i, "</")
    THEN ReadEndTag(s, i, SubSeq(s, i + 2, FindAny(s, i + 2, Space \cup {">"}) - 1),
                    FindStr(s, i + 2, ">"))
    ELSE ReadStartTag(s, i, FindAny(s, i + 1, Space \cup {">", "/"}))

\* the markup at the next < (at q) at or after position i, the character data
\* before it being well formed
NextTagAt(s, i, q) ==
    IF q = 0 \/ ~Unescape(SubSeq(s, i, q - 1)).ok THEN NoTag
    ELSE [ReadTag(s, q) EXCEPT !.at = q]

\* NoTag at a syntax error or at the end of the input
NextTag(s, i) == NextTagAt(s, i, FindStr(s, i, "<"))

NoElement == [ok |-> FALSE, v |-> "", raw |-> "", end |-> 0, next |-> 0]

\* Decoder.Skip and the reading of a string field: from position i inside the
\* element name, with the names of the elements open below it in stack: the
\* character data directly inside the element (v), the position of its end tag
\* (end) and the position after it (next); every end tag must name the element
\* it closes
RECURSIVE ReadContent(_, _, _, _, _)
\* the same, the next markup being t and the text up to it acc
ReadContentTo(s, t, name, stack, acc) ==
    CASE t.kind = "end" ->
            IF stack = <<>>
            THEN IF t.name = name
                 THEN [ok |-> TRUE, v |-> acc, raw |-> "", end |-> t.at, next |-> t.next]
                 ELSE NoElement
            ELSE IF t.name = Head(stack)
                 THEN ReadContent(s, t.next, name, Tail(stack), acc)
                 ELSE NoElement
      [] t.kind = "start" -> ReadContent(s, t.next, name, <<t.name>> \o stack, acc)
      [] OTHER -> ReadContent(s, t.next, name, stack, acc)

ReadContentAt(s, i, t, name, stack, text) ==
    IF ~t.ok THEN NoElement
    ELSE ReadContentTo(s, t, name, stack,
                       IF stack = <<>> THEN text \o Unescape(SubSeq(s, i, t.at - 1)).v
                       ELSE text)

ReadContent(s, i, name, stack, text) ==
    ReadContentAt(s, i, NextTag(s, i), name, stack, text)

\* the element with start tag t and content c: raw is its inner XML
ElementOf(s, t, c) ==
    IF ~c.ok THEN NoElement ELSE [c EXCEPT !.raw = SubSeq(s, t.next, c.end - 1)]

\* the element whose start tag t has been read: its character data (v), its
\* inner XML (raw) and the position after its end tag (next)
ReadElement(s, t) ==
    IF t.kind = "empty"
    THEN [ok |-> TRUE, v |-> "", raw |-> "", end |-> t.next, next |-> t.next]
    ELSE ElementOf(s, t, ReadContent(s, t.next, t.name, <<>>, ""))

(***************************************************************************)
(* The Atom types of hello.go:20-44 and their XML mapping                  *)
(***************************************************************************)
EmptyFeed == [Lang |-> "", Title |-> "", Link |-> <<>>, ID |-> "", Updated |-> "",
              Entry |-> <<>>]

EmptyEntry == [Title |-> "", Link |-> <<>>, Updated |-> "", ID |-> "",
               Summary |-> [Type |-> "", Body |-> ""]]

\* a nil *Feed
Nil == [nil |-> TRUE]

NoFeed == [ok |-> FALSE, v |-> Nil, next |-> 0]

\* Link: Href `xml:"href,attr"`, Rel `xml:"rel,attr,omitempty"`
LinkOf(t) == [Href |-> t.attr.href, Rel |-> t.attr.rel]

\* the field of Entry that the child element with start tag t and content el
\* is stored in; Body is the element's inner XML, unparsed and still escaped
EntryWith(e, t, el) ==
    CASE t.name = "title"   -> [e EXCEPT !.Title = el.v]
      [] t.name = "link"    -> [e EXCEPT !.Link = Append(@, LinkOf(t))]
      [] t.name = "updated" -> [e EXCEPT !.Updated = el.v]
      [] t.name = "id"      -> [e EXCEPT !.ID = el.v]
      [] t.name = "summary" ->
            [e EXCEPT !.Summary = [Type |-> IF t.attr.type # "" THEN t.attr.type ELSE @.Type,
                                   Body |-> el.raw]]
      [] OTHER              -> e

\* the field of Feed that the child element with start tag t and content el
\* is stored in
FeedWith(f, t, el) ==
    CASE t.name = "title"   -> [f EXCEPT !.Title = el.v]
      [] t.name = "link"    -> [f EXCEPT !.Link = Append(@, LinkOf(t))]
      [] t.name = "id"      -> [f EXCEPT !.ID = el.v]
      [] t.name = "updated" -> [f EXCEPT !.Updated = el.v]
      [] OTHER              -> f

\* the children of an <entry> from position i, into e
RECURSIVE ReadEntry(_, _, _)
\* the child with start tag t and content el is stored, and the rest is read
ReadEntryChild(s, t, el, e) ==
    IF ~el.ok THEN NoFeed ELSE ReadEntry(s, el.next, EntryWith(e, t, el))

\* the next markup is t
ReadEntryAt(s, t, e) ==
    IF ~t.ok THEN NoFeed
    ELSE CASE t.kind = "end" ->
                IF t.name = "entry" THEN [ok |-> TRUE, v |-> e, next |-> t.next]
                ELSE NoFeed
           [] t.kind = "pi" -> ReadEntry(s, t.next, e)
           [] OTHER -> ReadEntryChild(s, t, ReadElement(s, t), e)

ReadEntry(s, i, e) == ReadEntryAt(s, NextTag(s, i), e)

\* the children of <feed> from position i, into f
RECURSIVE ReadFeed(_, _, _)
\* the entry r is appended, and the rest is read
ReadFeedEntry(s, r, f) ==
    IF ~r.ok THEN NoFeed ELSE ReadFeed(s, r.next, [f EXCEPT !.Entry = Append(@, r.v)])

\* the child with start tag t and content el is stored, and the rest is read
ReadFeedChild(s, t, el, f) ==
    IF ~el.ok THEN NoFeed ELSE ReadFeed(s, el.next, FeedWith(f, t, el))

\* the next markup is t
ReadFeedAt(s, t, f) ==
    IF ~t.ok THEN NoFeed
    ELSE CASE t.kind = "end" ->
                IF t.name = "feed" THEN [ok |-> TRUE, v |-> f, next |-> t.next]
                ELSE NoFeed
           [] t.kind = "pi" -> ReadFeed(s, t.next, f)
           [] t.name = "entry" ->
                ReadFeedEntry(s, IF t.kind = "empty"
                                 THEN [ok |-> TRUE, v |-> EmptyEntry, next |-> t.next]
                                 ELSE ReadEntry(s, t.next, EmptyEntry),
                              f)
           [] OTHER -> ReadFeedChild(s, t, ReadElement(s, t), f)

ReadFeed(s, i, f) == ReadFeedAt(s, NextTag(s, i), f)

\* the first start tag of the document, after any processing instructions
RECURSIVE RootTag(_, _)
RootTagAt(s, t) == IF t.ok /\ t.kind = "pi" THEN RootTag(s, t.next) ELSE t

RootTag(s, i) == RootTagAt(s, NextTag(s, i))

\* the document whose root start tag is t
UnmarshalAt(b, t) ==
    IF ~t.ok \/ t.kind = "end" \/ t.name # "feed" \/ t.attr.xmlns # AtomNS
    THEN NoFeed
    ELSE IF t.kind = "empty"
    THEN [ok |-> TRUE, v |-> [EmptyFeed EXCEPT !.Lang = t.attr.lang], next |-> t.next]
    ELSE ReadFeed(b, t.next, [EmptyFeed EXCEPT !.Lang = t.attr.lang])

\* the decoding xml.Unmarshal(b, &feed) does: the root must be <feed> in the
\* Atom name space (XMLName `xml:"http://www.w3.org/2005/Atom feed"`)
Decode(b) == UnmarshalAt(b, RootTag(b, 1))

\* an attribute with `omitempty`
OptAttr(name, v) == IF v = "" THEN "" ELSE " " \o name \o "=\"" \o EscapeText(v) \o "\""

Elem(name, v) == "<" \o name \o ">" \o EscapeText(v) \o "</" \o name \o ">"

RECURSIVE MarshalLinks(_)
MarshalLinks(ls) ==
    IF ls = <<>> THEN ""
    ELSE "<link href=\"" \o EscapeText(Head(ls).Href) \o "\"" \o OptAttr("rel", Head(ls).Rel)
             \o "></link>" \o MarshalLinks(Tail(ls))

\* Summary with Body written as character data (`xml:",chardata"`)
MarshalSummaryEscaped(sm) ==
    "<summary" \o OptAttr("type", sm.Type) \o ">" \o EscapeText(sm.Body) \o "</summary>"

\* Summary: Type `xml:"type,attr,omitempty"`, Body `xml:",innerxml"` written verbatim
MarshalSummary(sm) == "<summary" \o OptAttr("type", sm.Type) \o ">" \o sm.Body \o "</summary>"

MarshalEntry(e) ==
    "<entry>" \o Elem("title", e.Title) \o MarshalLinks(e.Link) \o Elem("updated", e.Updated)
        \o Elem("id", e.ID) \o MarshalSummary(e.Summary) \o "</entry>"

RECURSIVE MarshalEntries(_)
MarshalEntries(es) ==
    IF es = <<>> THEN "" ELSE MarshalEntry(Head(es)) \o MarshalEntries(Tail(es))

\* the encoding xml.Marshal(feed) does: the fields in the order of the struct
Encode(feed) ==
    "<feed xmlns=\"" \o AtomNS \o "\"" \o OptAttr("xml:lang", feed.Lang) \o ">"
        \o Elem("title", feed.Title) \o MarshalLinks(feed.Link) \o Elem("id", feed.ID)
        \o Elem("updated", feed.Updated) \o MarshalEntries(feed.Entry) \o "</feed>"

\* html.UnescapeString: the entities are replaced, anything else is kept
HtmlEntities == {"lt", "gt", "amp", "quot", "apos", "#34", "#39", "#47"}

RECURSIVE HtmlUnescapeFrom(_, _)
\* the next & is at m and the end of its name at e
HtmlUnescapeAt(s, i, m, e) ==
    IF m = 0 THEN From(s, i)
    ELSE IF e # 0 /\ Ch(s, e) = ";" /\ SubSeq(s, m + 1, e - 1) \in HtmlEntities
         THEN SubSeq(s, i, m - 1) \o EntityChar(SubSeq(s, m + 1, e - 1))
                  \o HtmlUnescapeFrom(s, e + 1)
         ELSE SubSeq(s, i, m) \o HtmlUnescapeFrom(s, m + 1)

HtmlUnescapeAmp(s, i, m) ==
    HtmlUnescapeAt(s, i, m, IF m = 0 THEN 0 ELSE FindAny(s, m + 1, {";", "&", " ", "<"}))

HtmlUnescapeFrom(s, i) == HtmlUnescapeAmp(s, i, FindStr(s, i, "&"))

HtmlUnescape(s) == HtmlUnescapeFrom(s, 1)

(***************************************************************************)
(* The handlers' work on a Feed                                            *)
(***************************************************************************)
\* the same without the newline
AppendCaptionNoNewline(e) == [e EXCEPT !.Summary.Body = @ \o AltText(@)]

\* hello.go:122-124: feed.Entry[i].Summary.Body += "\n" + feed.Entry[i].AltText()
AppendCaption(e) == [e EXCEPT !.Summary.Body = @ \o "\n" \o AltText(@)]

\* the Feed object after atomHandler's loop, hello.go:122-124
atomHandlerFeed(feed) == [feed EXCEPT !.Entry = [i \in 1..Len(@) |-> AppendCaption(@[i])]]

\* the Feed object if mainHandler's loop stored the caption as atomHandler's does
mainHandlerFeedCaptioned(feed) == atomHandlerFeed(feed)

\* the Feed object after mainHandler's loop, hello.go:177-185, which only reads it
mainHandlerFeed(feed) == feed

\* the caption taken from the body after it was unescaped
PageEntryOfUnescaped(e) ==
    [Title |-> e.Title, Img |-> HtmlUnescape(e.Summary.Body),
     Text |-> HtmlUnescape(AltText(HtmlUnescape(e.Summary.Body)))]

\* pageEntry, hello.go:163-167 and 178-184
PageEntry(e) ==
    [Title |-> e.Title, Img |-> HtmlUnescape(e.Summary.Body),
     Text |-> HtmlUnescape(AltText(e.Summary.Body))]

(***************************************************************************)
(* The environment: the upstream resource and the memcache entry           *)
(***************************************************************************)
\* the documents https://xkcd.com/atom.xml can hold: a feed with nested
\* markup, a feed with escaped markup and character references, and a
\* truncated one
UpA ==
    "<?xml version=\"1.0\" encoding=\"utf-8\"?>\n"
    \o "<feed xmlns=\"http://www.w3.org/2005/Atom\" xml:lang=\"en\"><title>xkcd.com</title>"
    \o "<link href=\"http://xkcd.com/\" rel=\"alternate\"/><id>http://xkcd.com/</id>"
    \o "<updated>u1</updated><entry><title>A</title>"
    \o "<link href=\"http://xkcd.com/1/\" rel=\"alternate\"/><updated>u1</updated>"
    \o "<id>http://xkcd.com/1/</id><summary type=\"html\">"
    \o "<img src=\"http://imgs.xkcd.com/x.png\" alt=\"hi\"/></summary></entry></feed>"

UpB ==
    "<feed xmlns=\"http://www.w3.org/2005/Atom\"><title>x &amp; y</title><id>i</id>"
    \o "<updated>u2</updated><entry><title>B</title><link href=\"http:&#47;&#47;xkcd.com/2/\"/>"
    \o "<updated>u2</updated><id>2</id><summary type=\"html\">"
    \o "&lt;img src=\"http://imgs.xkcd.com/b.png\" title=\"t\" alt=\"b &amp;amp; c\" /&gt;"
    \o " alt=\"late\"</summary></entry>"
    \o "<entry><title>C&lt;</title><updated>u0</updated><id>3</id>"
    \o "<summary>no caption</summary></entry></feed>"

UpBad == "<feed xmlns=\"http://www.w3.org/2005/Atom\"><title>xkcd.com</title><entry><title>A</tit"

Upstreams == {UpA, UpB, UpBad}

\* bytes under atomKey that are no feed, as a writer other than this program leaves them
Garbage == "<feed xmlns=\"http://www.w3.org/2005/Atom\"><title>"

\* ReplaceAll of the upstream documents, evaluated once
Rewritten == {[b |-> u, r |-> ReplaceAll(u)] : u \in Upstreams}

\* hello.go:79: b = httpExp.ReplaceAll(b, httpsReplacement)
Rewrite(b) ==
    IF b \in Upstreams THEN (CHOOSE e \in Rewritten : e.b = b).r ELSE ReplaceAll(b)

\* the bytes a run hands to xml.Unmarshal: the rewritten upstream documents
\* and what is stored for them, and the documents atomHandler writes
Fetched == {e.r : e \in Rewritten}

Cached == {Encode(Decode(d).v) : d \in {x \in Fetched : Decode(x).ok}}

Republished ==
    {Encode(atomHandlerFeed(Decode(d).v)) : d \in {x \in Fetched \cup Cached : Decode(x).ok}}

Documents == Fetched \cup Cached \cup Republished \cup {Garbage}

\* Decode of these documents, evaluated once
Decoded == {[b |-> d, r |-> Decode(d)] : d \in Documents}

\* xml.Unmarshal(b, &feed), hello.go:80 and 108: [ok, v]
Unmarshal(b) ==
    IF b \in Documents THEN (CHOOSE e \in Decoded : e.b = b).r ELSE Decode(b)

\* xml.Marshal(feed), hello.go:97 and 125; it returns no error for a Feed
Marshal(feed) == Encode(feed)

\* the concurrent requests, and the routes of init(), hello.go:60-63
Reqs == {"r1", "r2"}

Handlers == {"atom", "main"}

\* the age in minutes past which the model no longer counts
MaxAge == 6

\* the number of pieces the inputs of the pure functions are made of
MaxPieces == 4

VARIABLES
    upstream,   \* the bytes https://xkcd.com/atom.xml serves now
    cache,      \* the memcache item under atomKey
    req,        \* the requests in progress, each with its handler's locals
    pure,       \* the function under test of SpecPure
    order       \* who holds a fetched document ("cache" or a request), in the
                \* order in which the documents were fetched

vars == <<upstream, cache, req, pure, order>>

\* item.Expiration, hello.go:101, in minutes
Expiration == 5

\* http.StatusOK, hello.go:71
StatusOK == 200

\* http.StatusInternalServerError, hello.go:119 and 127
StatusInternalServerError == 500

\* no item; doc records the Feed whose bytes value holds
NoItem == [present |-> FALSE, value |-> "", exp |-> 0, age |-> 0, doc |-> Nil]

\* memcache.Get(ctx, atomKey), hello.go:90: the value, or an error (a miss)
\* when no item is stored or the stored one has expired
MemcacheGet(c) ==
    IF c.present /\ c.age < c.exp
    THEN [err |-> FALSE, value |-> c.value]
    ELSE [err |-> TRUE, value |-> ""]

\* the item with an expiration of one minute
ItemShort(b, feed) == [present |-> TRUE, value |-> b, exp |-> 1, age |-> 0, doc |-> feed]

\* the item of hello.go:98-102
Item(b, feed) == [present |-> TRUE, value |-> b, exp |-> Expiration, age |-> 0, doc |-> feed]

\* what client.Get and ioutil.ReadAll can meet: a transport error, or a
\* response with a status and a body that may fail to be read
Responses(body) ==
    {[err |-> TRUE, status |-> 0, body |-> "", readErr |-> FALSE]}
    \cup {[err |-> FALSE, status |-> st, body |-> body, readErr |-> re] :
              st \in {StatusOK, 503}, re \in BOOLEAN}

\* hello.go:80-84: the outcome u of xml.Unmarshal
Unmarshalled(u, msg) ==
    IF ~u.ok THEN [feed |-> Nil, err |-> msg] ELSE [feed |-> u.v, err |-> ""]

\* getUpstreamAtom without the check of the status
getUpstreamAtomAnyStatus(net) ==
    IF net.err
    THEN [feed |-> Nil, err |-> "urlfetch: transport error"]
    ELSE IF net.readErr
    THEN [feed |-> Nil, err |-> "failed to read response"]
    ELSE Unmarshalled(Unmarshal(Rewrite(net.body)), "failed to unmarshal feed")

\* getUpstreamAtom, hello.go:65-85, on the outcome net of the GET
getUpstreamAtom(net) ==
    IF net.err
    THEN [feed |-> Nil, err |-> "urlfetch: transport error"]
    ELSE IF net.status # StatusOK
    THEN [feed |-> Nil, err |-> "http request was not OK"]
    ELSE IF net.readErr
    THEN [feed |-> Nil, err |-> "failed to read response"]
    ELSE Unmarshalled(Unmarshal(Rewrite(net.body)), "failed to unmarshal feed")

\* hello.go:107-112: the cached bytes read back
FromCache(value) == Unmarshalled(Unmarshal(value), "failed to unmarshal cached feed")

\* the bytes stored if the Feed were marshalled after atomHandler's loop
CacheValueCaptioned(feed) == Marshal(atomHandlerFeed(feed))

\* the bytes stored if the last byte of the serialization were lost
CacheValueTruncated(feed) == SubSeq(Marshal(feed), 1, Len(Marshal(feed)) - 1)

\* hello.go:97: the bytes cachingGetUpstreamAtom stores for feed
CacheValue(feed) == Marshal(feed)

\* the same, a failed memcache.Set being returned as an error
AfterStoreStrict(feed, setOK) ==
    IF setOK THEN [feed |-> feed, err |-> ""] ELSE [feed |-> Nil, err |-> "memcache: set failed"]

\* hello.go:97-105: what cachingGetUpstreamAtom returns after the fetch,
\* whether memcache.Set succeeded (setOK) or not
AfterStore(feed, setOK) == [feed |-> feed, err |-> ""]

\* the locals of a request; its history is recorded in ret (what
\* cachingGetUpstreamAtom returned), got (how memcache.Get ended), cause (how
\* the fetch chain ended), looks, gets and sets (the memcache.Get calls, the
\* upstream GETs and the memcache.Set calls made), opened and closed (the
\* response body of the GET)
Idle ==
    [pc |-> "idle", h |-> "", item |-> "", feed |-> Nil, err |-> "", ret |-> Nil,
     got |-> "", cause |-> "", looks |-> 0, gets |-> 0, sets |-> 0,
     opened |-> FALSE, closed |-> FALSE, status |-> 0, body |-> "", page |-> <<>>]

NoPure == [stage |-> "off", body |-> "", out |-> "", out2 |-> ""]

Init ==
    /\ upstream \in Upstreams
    /\ cache = NoItem
    /\ req = [r \in Reqs |-> Idle]
    /\ pure = NoPure
    /\ order = <<>>

\* a request arrives at /atom.xml or at /
Begin(r, h) ==
    /\ req[r].pc = "idle"
    /\ req' = [req EXCEPT ![r] = [Idle EXCEPT !.pc = "get", !.h = h]]
    /\ UNCHANGED <<upstream, cache, pure, order>>

\* cachingGetUpstreamAtom returns res
Return(q, res) == [q EXCEPT !.pc = "handle", !.feed = res.feed, !.err = res.err,
                            !.ret = res.feed]

\* the same, a failure of memcache.Get other than a miss being returned
AfterGetStrict(q, g) ==
    IF g.err /\ q.got = "error"
    THEN Return(q, [feed |-> Nil, err |-> "memcache: server error"])
    ELSE IF g.err
    THEN [q EXCEPT !.pc = "fetch"]
    ELSE Return([q EXCEPT !.item = g.value], FromCache(g.value))

\* the same, bytes that do not decode being taken for a miss
AfterGetFallback(q, g) ==
    IF g.err \/ ~Unmarshal(g.value).ok
    THEN [q EXCEPT !.pc = "fetch"]
    ELSE Return([q EXCEPT !.item = g.value], FromCache(g.value))

\* hello.go:90-91 and 107-112: the request q after the lookup g
AfterGet(q, g) ==
    IF g.err
    THEN [q EXCEPT !.pc = "fetch"]
    ELSE Return([q EXCEPT !.item = g.value], FromCache(g.value))

\* hello.go:90-91 and 107-112: the cache lookup and, on a hit, the decoding
CacheGet(r) ==
    /\ req[r].pc = "get"
    /\ req' = [req EXCEPT ![r] =
                  AfterGet([req[r] EXCEPT !.looks = @ + 1,
                                          !.got = IF MemcacheGet(cache).err THEN "miss"
                                                  ELSE "hit"],
                           MemcacheGet(cache))]
    /\ UNCHANGED <<upstream, cache, pure, order>>

\* how the fetch chain ends on the outcome net
Cause(net) ==
    IF net.err THEN "transport"
    ELSE IF net.status # StatusOK THEN "status"
    ELSE IF net.readErr THEN "read"
    ELSE IF ~Unmarshal(Rewrite(net.body)).ok THEN "parse"
    ELSE "ok"

\* the same, a failed fetch being tried again
AfterFetchRetry(q, res) ==
    IF res.err # "" THEN [q EXCEPT !.pc = "fetch"] ELSE [q EXCEPT !.pc = "store", !.feed = res.feed]

\* hello.go:92-96: the request q after getUpstreamAtom has returned res
AfterFetch(q, res) ==
    IF res.err # "" THEN Return(q, res) ELSE [q EXCEPT !.pc = "store", !.feed = res.feed]

\* hello.go:67: client.Get returned a response, whose body is open
Opened(net) == ~net.err

\* hello.go:71-74: resp.Body.Close() is deferred once the status has been
\* found to be 200, and runs when getUpstreamAtom returns
Closed(net) == ~net.err /\ net.status = StatusOK

\* o without x
RECURSIVE Without(_, _)
Without(o, x) ==
    IF o = <<>> THEN <<>>
    ELSE IF Head(o) = x THEN Without(Tail(o), x)
    ELSE <<Head(o)>> \o Without(Tail(o), x)

\* o with "cache" in the place of r
Renamed(o, r) == [i \in 1..Len(o) |-> IF o[i] = r THEN "cache" ELSE o[i]]

\* the order after request r has stored its document, or has failed to
Stored(o, r, setOK) == IF setOK THEN Renamed(Without(o, "cache"), r) ELSE Without(o, r)

\* the same, waiting while another request holds a document it has fetched and
\* not yet stored
FetchSingleFlight(r) ==
    /\ req[r].pc = "fetch"
    /\ \A s \in Reqs \ {r} : req[s].pc # "store"
    /\ \E net \in Responses(upstream) :
          /\ req' = [req EXCEPT ![r] =
                        AfterFetch([req[r] EXCEPT !.gets = @ + 1, !.cause = Cause(net),
                                                  !.opened = Opened(net),
                                                  !.closed = Closed(net)],
                                   getUpstreamAtom(net))]
          /\ order' = IF req'[r].pc = "store" THEN Append(order, r) ELSE order
    /\ UNCHANGED <<upstream, cache, pure>>

\* hello.go:92-96: the upstream GET, the rewrite and the parse
Fetch(r) ==
    /\ req[r].pc = "fetch"
    /\ \E net \in Responses(upstream) :
          /\ req' = [req EXCEPT ![r] =
                        AfterFetch([req[r] EXCEPT !.gets = @ + 1, !.cause = Cause(net),
                                                  !.opened = Opened(net),
                                                  !.closed = Closed(net)],
                                   getUpstreamAtom(net))]
          /\ order' = IF req'[r].pc = "store" THEN Append(order, r) ELSE order
    /\ UNCHANGED <<upstream, cache, pure>>

\* hello.go:97-105: the feed is marshalled and stored; memcache.Set may fail
Store(r) ==
    /\ req[r].pc = "store"
    /\ \E setOK \in BOOLEAN :
          /\ cache' = IF setOK THEN Item(CacheValue(req[r].feed), req[r].feed) ELSE cache
          /\ req' = [req EXCEPT ![r] =
                        Return([req[r] EXCEPT !.sets = @ + 1],
                               AfterStore(req[r].feed, setOK))]
          /\ order' = Stored(order, r, setOK)
    /\ UNCHANGED <<upstream, pure>>

\* the same without the error's text
FailedNoCause(q) ==
    [q EXCEPT !.pc = "done", !.status = StatusInternalServerError,
              !.body = "failed to get upstream atom"]

\* hello.go:118-120 and 173-175: http.Error
Failed(q) ==
    [q EXCEPT !.pc = "done", !.status = StatusInternalServerError,
              !.body = "failed to get upstream atom: " \o q.err]

\* atomHandler, hello.go:122-132: f is the feed after the loop
AtomDone(q, f) ==
    [q EXCEPT !.pc = "done", !.status = StatusOK, !.feed = f, !.body = xmlHeader \o Marshal(f)]

\* mainHandler, hello.go:177-188: f is the feed after the loop
MainDone(q, f) ==
    [q EXCEPT !.pc = "done", !.status = StatusOK, !.feed = f,
              !.page = [i \in 1..Len(q.feed.Entry) |-> PageEntry(q.feed.Entry[i])]]

\* atomHandler, hello.go:118-132, and mainHandler, hello.go:172-188, after
\* cachingGetUpstreamAtom has returned
Handled(q) ==
    IF q.err # "" THEN Failed(q)
    ELSE IF q.h = "atom" THEN AtomDone(q, atomHandlerFeed(q.feed))
    ELSE MainDone(q, mainHandlerFeed(q.feed))

Respond(r) ==
    /\ req[r].pc = "handle"
    /\ req' = [req EXCEPT ![r] = Handled(req[r])]
    /\ UNCHANGED <<upstream, cache, pure, order>>

\* the response has been sent
Finish(r) ==
    /\ req[r].pc = "done"
    /\ req' = [req EXCEPT ![r] = Idle]
    /\ UNCHANGED <<upstream, cache, pure, order>>

\* a minute passes
Tick ==
    /\ cache.present
    /\ cache.age < MaxAge
    /\ cache' = [cache EXCEPT !.age = @ + 1]
    /\ UNCHANGED <<upstream, req, pure, order>>

\* xkcd.com publishes another document
Publish ==
    /\ \E u \in Upstreams \ {upstream} : upstream' = u
    /\ UNCHANGED <<cache, req, pure, order>>

Next ==
    \/ \E r \in Reqs, h \in Handlers : Begin(r, h)
    \/ \E r \in Reqs : CacheGet(r)
    \/ \E r \in Reqs : Fetch(r)
    \/ \E r \in Reqs : Store(r)
    \/ \E r \in Reqs : Respond(r)
    \/ \E r \in Reqs : Finish(r)
    \/ Tick
    \/ Publish

Spec == Init /\ [][Next]_vars

(***************************************************************************)
(* The cache with a writer other than this program                         *)
(***************************************************************************)
\* the bytes under atomKey are replaced by bytes that are no feed
Corrupt ==
    /\ cache.present
    /\ cache.value # Garbage
    /\ cache' = [cache EXCEPT !.value = Garbage, !.doc = Nil]
    /\ UNCHANGED <<upstream, req, pure, order>>

\* memcache.Get fails for a reason other than a miss, hello.go:90-91
CacheGetFails(r) ==
    /\ req[r].pc = "get"
    /\ req' = [req EXCEPT ![r] =
                  AfterGet([req[r] EXCEPT !.looks = @ + 1, !.got = "error"],
                           [err |-> TRUE, value |-> ""])]
    /\ UNCHANGED <<upstream, cache, pure, order>>

NextEnv ==
    \/ \E r \in Reqs, h \in Handlers : Begin(r, h)
    \/ \E r \in Reqs : CacheGet(r)
    \/ \E r \in Reqs : Fetch(r)
    \/ \E r \in Reqs : Store(r)
    \/ \E r \in Reqs : Respond(r)
    \/ \E r \in Reqs : Finish(r)
    \/ Tick
    \/ Publish
    \/ Corrupt

SpecEnv == Init /\ [][NextEnv]_vars

NextGet ==
    \/ \E r \in Reqs, h \in Handlers : Begin(r, h)
    \/ \E r \in Reqs : CacheGet(r)
    \/ \E r \in Reqs : CacheGetFails(r)
    \/ \E r \in Reqs : Fetch(r)
    \/ \E r \in Reqs : Store(r)
    \/ \E r \in Reqs : Respond(r)
    \/ \E r \in Reqs : Finish(r)
    \/ Tick
    \/ Publish
    \/ Corrupt

\* the cache with a writer other than this program and a Get that can fail
SpecGet == Init /\ [][NextGet]_vars

(***************************************************************************)
(* AltText and the rewrite on their own                                    *)
(***************************************************************************)
\* what the inputs are made of
Pieces == {"alt=\"", "\"", "a\"", "http://", "https://", "imgs.", "xkcd.com", "xkcd-com"}

\* the strings of at most n pieces
RECURSIVE Strings(_)
Longer(S) == S \cup {s \o p : s \in S, p \in Pieces}

Strings(n) == IF n = 0 THEN {""} ELSE Longer(Strings(n - 1))

\* bodies as the feed has them
Examples == {"foo <img alt=\"bar\" src=\"x\"> baz", "no caption, http://xkcd.com/1/"}

Inputs == Strings(MaxPieces) \cup Examples

InitPure ==
    /\ upstream = UpA
    /\ cache = NoItem
    /\ req = [r \in Reqs |-> Idle]
    /\ pure \in {[stage |-> "in", body |-> b, out |-> "", out2 |-> ""] : b \in Inputs}
    /\ order = <<>>

\* e.AltText() on an Entry whose Summary.Body is pure.body, hello.go:52-58
CallAltText ==
    /\ pure.stage = "in"
    /\ pure' = [pure EXCEPT !.stage = "alt", !.out = AltText(pure.body)]
    /\ UNCHANGED <<upstream, cache, req, order>>

\* e.AltText() on the same Entry again
CallAltTextAgain ==
    /\ pure.stage = "alt"
    /\ pure' = [pure EXCEPT !.stage = "alt2", !.out2 = AltText(pure.body)]
    /\ UNCHANGED <<upstream, cache, req, order>>

\* httpExp.ReplaceAll(b, httpsReplacement) on pure.body, hello.go:79
CallRewrite ==
    /\ pure.stage = "in"
    /\ pure' = [pure EXCEPT !.stage = "rw", !.out = Rewrite(pure.body)]
    /\ UNCHANGED <<upstream, cache, req, order>>

\* the same on the bytes it returned
CallRewriteAgain ==
    /\ pure.stage = "rw"
    /\ pure' = [pure EXCEPT !.stage = "rw2", !.out2 = Rewrite(pure.out)]
    /\ UNCHANGED <<upstream, cache, req, order>>

NextPure ==
    \/ CallAltText
    \/ CallAltTextAgain
    \/ CallRewrite
    \/ CallRewriteAgain

SpecPure == InitPure /\ [][NextPure]_vars

(***************************************************************************)
(* The properties                                                          *)
(***************************************************************************)
\* the lookup of request r is the step taken
Looked(r) == req[r].pc = "get" /\ req'[r].pc # "get"

\* C1: a lookup less than 5 minutes after the last successful set returns the
\* Feed decoded from the stored entry, with no error and no upstream GET in
\* the whole request; a lookup more than 5 minutes after it goes to the fetch
\* path, which performs one upstream GET
C1_CacheFreshness ==
    [][\A r \in Reqs :
          /\ (Looked(r) /\ cache.present /\ cache.age < 5) =>
                /\ req'[r].pc = "handle"
                /\ req'[r].err = ""
                /\ req'[r].ret = Unmarshal(cache.value).v
                /\ req'[r].item = cache.value
          /\ (Looked(r) /\ cache.present /\ cache.age > 5) => req'[r].pc = "fetch"
          /\ req'[r].item # "" => req'[r].gets = 0
          /\ (req[r].pc = "fetch" /\ req'[r].pc # "fetch") => req'[r].gets = 1]_vars

\* a request served from an entry while it was fresh, and another on the
\* fetch path after the entry has expired
C1_Witness ==
    \E r \in Reqs, s \in Reqs :
        /\ req[r].pc = "done" /\ req[r].item = cache.value /\ req[r].gets = 0
        /\ req[r].ret = cache.doc
        /\ req[s].pc = "store" /\ req[s].gets = 1
        /\ cache.present /\ cache.age > 5

FetchFailures == {"transport", "status", "read", "parse"}

\* C2: when the fetch chain fails (transport error, status other than 200,
\* read error, parse error), cachingGetUpstreamAtom returns an error and no
\* Feed, the failing step leaves the cache entry as it was, and the request
\* calls memcache.Set at no time
C2_FetchFailureLeavesCache ==
    /\ [][\A r \in Reqs :
             (req[r].pc = "fetch" /\ req'[r].cause \in FetchFailures) =>
                /\ req'[r].pc = "handle"
                /\ req'[r].err # ""
                /\ req'[r].ret = Nil
                /\ cache' = cache]_vars
    /\ [](\A r \in Reqs :
             req[r].cause \in FetchFailures =>
                /\ req[r].sets = 0
                /\ req[r].pc \in {"handle", "done"}
                /\ req[r].err # ""
                /\ req[r].ret = Nil)

\* two requests whose fetches failed, one on the status and one on the parse,
\* beside an expired entry that is still stored
C2_Witness ==
    \E r \in Reqs, s \in Reqs :
        /\ req[r].pc = "done" /\ req[r].cause = "status"
        /\ req[s].pc = "handle" /\ req[s].cause = "parse"
        /\ cache.present

\* C3: when memcache.Get returns an unexpired item whose bytes do not decode,
\* cachingGetUpstreamAtom returns an error and no Feed, the cache entry stays
\* as it is, and the request performs no upstream GET and no memcache.Set: it
\* never goes to the fetch path
C3_StrictCacheCorruption ==
    /\ [][\A r \in Reqs :
             (Looked(r) /\ cache.present /\ cache.age < cache.exp
                 /\ ~Unmarshal(cache.value).ok) =>
                /\ req'[r].pc = "handle"
                /\ req'[r].item = cache.value
                /\ req'[r].err # ""
                /\ req'[r].ret = Nil
                /\ cache' = cache]_vars
    /\ [](\A r \in Reqs :
             (req[r].item # "" /\ ~Unmarshal(req[r].item).ok) =>
                /\ req[r].pc \in {"handle", "done"}
                /\ req[r].gets = 0
                /\ req[r].sets = 0
                /\ req[r].err # "")

\* a request that has failed on bytes that do not decode, which are still stored
C3_Witness ==
    \E r \in Reqs :
        /\ req[r].pc = "done" /\ req[r].item = Garbage /\ req[r].err # ""
        /\ req[r].gets = 0
        /\ cache.present /\ cache.value = Garbage /\ cache.age < cache.exp

\* C4: on a miss whose fetch, rewrite and parse succeed,
\* cachingGetUpstreamAtom returns the Feed just fetched and no error, whether
\* memcache.Set succeeds or fails, and the request is answered with 200
C4_CacheWriteFailureAbsorbed ==
    /\ [][\A r \in Reqs :
             /\ (req[r].pc = "fetch" /\ req'[r].cause = "ok") =>
                   /\ req'[r].pc = "store"
                   /\ req'[r].feed = Unmarshal(Rewrite(upstream)).v
             /\ (req[r].pc = "store" /\ req'[r].pc # "store") =>
                   /\ req'[r].pc = "handle"
                   /\ req'[r].sets = 1
                   /\ req'[r].err = ""
                   /\ req'[r].ret = req[r].feed]_vars
    /\ [](\A r \in Reqs :
             (req[r].cause = "ok" /\ req[r].pc = "done") =>
                req[r].status = 200 /\ req[r].ret # Nil)

\* a request answered with 200 from a fetch whose memcache.Set failed: no
\* item is stored
C4_Witness ==
    \E r \in Reqs :
        /\ req[r].pc = "done" /\ req[r].cause = "ok" /\ req[r].sets = 1
        /\ req[r].status = 200
        /\ ~cache.present

\* request r has been answered with 200 by handler h
Served(r, h) == req[r].pc = "done" /\ req[r].h = h /\ req[r].status = 200

\* C5 as stated: after either handler has run, the Feed that
\* cachingGetUpstreamAtom returned is unchanged
C5_AdaptersNeverMutate ==
    \A r \in Reqs : (req[r].pc = "done" /\ req[r].status = 200) => req[r].feed = req[r].ret

\* entry e is entry d with d's Summary.Body followed by a newline and more
Extended(e, d) ==
    /\ [e EXCEPT !.Summary.Body = d.Summary.Body] = d
    /\ At(e.Summary.Body, 1, d.Summary.Body \o "\n")

\* C5, amended: mainHandler leaves the Feed that cachingGetUpstreamAtom
\* returned unchanged; atomHandler changes it in place, and only in the
\* Summary.Body of each Entry, which becomes the returned body followed by a
\* newline and the caption; the step of either handler leaves the cache
\* entry and the other requests as they are
C5_AdaptersMutateOnlyOwnBodies ==
    /\ [](\A r \in Reqs :
             /\ Served(r, "main") => req[r].feed = req[r].ret
             /\ Served(r, "atom") =>
                   /\ [req[r].feed EXCEPT !.Entry = req[r].ret.Entry] = req[r].ret
                   /\ Len(req[r].feed.Entry) = Len(req[r].ret.Entry)
                   /\ \A i \in 1..Len(req[r].ret.Entry) :
                         Extended(req[r].feed.Entry[i], req[r].ret.Entry[i]))
    /\ [][\A r \in Reqs :
             (req[r].pc = "handle" /\ req'[r].pc = "done") =>
                /\ cache' = cache
                /\ req'[r].ret = req[r].ret
                /\ \A s \in Reqs \ {r} : req'[s] = req[s]]_vars

\* both handlers have answered with 200 from the same stored item, and
\* atomHandler's Feed is no longer the one it was given
C5_Witness ==
    \E r \in Reqs, s \in Reqs :
        /\ Served(r, "atom") /\ req[r].feed # req[r].ret
        /\ Served(s, "main") /\ req[s].feed = req[s].ret
        /\ req[r].item = cache.value /\ req[s].item = cache.value /\ cache.present

\* the upstream documents that parse once rewritten
ValidUpstreams == {u \in Upstreams : Unmarshal(Rewrite(u)).ok}

\* the serializations of the rewritten upstream documents, no caption appended
CleanValues == {Marshal(Unmarshal(Rewrite(u)).v) : u \in ValidUpstreams}

\* the feed that the body of an /atom.xml response holds, after the XML header
Emitted(body) == Unmarshal(From(body, Len(xmlHeader) + 1))

\* entry e is entry d with the caption of d's Summary.Body appended once
CaptionedOnce(e, d) ==
    e = [d EXCEPT !.Summary.Body = d.Summary.Body \o "\n" \o AltText(d.Summary.Body)]

\* C6: every value in the cache is the serialization of a rewritten upstream
\* document, with no caption in any Summary.Body; the /atom.xml responses
\* built from the same cached bytes are identical, and each of their entries
\* is the cached entry with its caption appended exactly once
C6_CaptionsNeverPersisted ==
    /\ cache.present => cache.value \in CleanValues
    /\ \A r \in Reqs :
          (Served(r, "atom") /\ req[r].item # "") =>
             /\ Emitted(req[r].body).ok
             /\ Len(Emitted(req[r].body).v.Entry) = Len(Unmarshal(req[r].item).v.Entry)
             /\ \A i \in 1..Len(Unmarshal(req[r].item).v.Entry) :
                   CaptionedOnce(Emitted(req[r].body).v.Entry[i],
                                 Unmarshal(req[r].item).v.Entry[i])
             /\ \A s \in Reqs :
                   (Served(s, "atom") /\ req[s].item = req[r].item) =>
                      req[s].body = req[r].body

\* two /atom.xml responses built from the bytes that are stored, which hold
\* two entries
C6_Witness ==
    \E r \in Reqs, s \in Reqs :
        /\ r # s
        /\ Served(r, "atom") /\ req[r].item = cache.value
        /\ Served(s, "atom") /\ req[s].item = cache.value
        /\ cache.present /\ Len(cache.doc.Entry) = 2

\* C7: the feed a successful /atom.xml request emits, on a hit and on a miss
\* alike, is the XML header and then a feed with the fields of the Feed that
\* cachingGetUpstreamAtom returned and its entries in the same order, each
\* Summary.Body being the returned body, a newline and AltText of that body;
\* the body <img src="http://imgs.xkcd.com/x.png" alt="hi"/> is emitted with
\* the https URL and ends in a newline and hi
C7_RepublishOutput ==
    \A r \in Reqs :
        Served(r, "atom") =>
           /\ At(req[r].body, 1, xmlHeader)
           /\ Emitted(req[r].body).ok
           /\ [Emitted(req[r].body).v EXCEPT !.Entry = req[r].ret.Entry] = req[r].ret
           /\ Len(Emitted(req[r].body).v.Entry) = Len(req[r].ret.Entry)
           /\ \A i \in 1..Len(req[r].ret.Entry) :
                 CaptionedOnce(Emitted(req[r].body).v.Entry[i], req[r].ret.Entry[i])
           /\ req[r].ret.Title = "xkcd.com" =>
                 Contains(req[r].body,
                          "<img src=\"https://imgs.xkcd.com/x.png\" alt=\"hi\"/>\nhi</summary>")

\* two successful /atom.xml requests for the same document, one served from
\* the cache and one that fetched it
C7_Witness ==
    \E r \in Reqs, s \in Reqs :
        /\ Served(r, "atom") /\ req[r].item # "" /\ req[r].gets = 0
        /\ Served(s, "atom") /\ req[s].item = "" /\ req[s].gets = 1
        /\ req[r].ret = req[s].ret /\ req[r].ret.Title = "xkcd.com"

\* altExp matches s from the alt=" at a to the quote at q
AltMatch(s, a, q) ==
    /\ At(s, a, "alt=\"")
    /\ q >= a + 5 /\ q <= Len(s) /\ Ch(s, q) = "\""
    /\ \A k \in (a + 5)..(q - 1) : Ch(s, k) # "\""

\* s has a match of altExp that starts before a
EarlierAltMatch(s, a) == \E b \in 1..(a - 1), q \in 1..Len(s) : AltMatch(s, b, q)

\* C8: AltText returns what stands between the quotes of the first
\* alt="..." of the body, the run of non-quote characters up to the next
\* quote, whatever follows it; it returns "" when the body has no alt="...";
\* a second call returns the same, and the body is left as it was
C8_CaptionExtraction ==
    /\ [](pure.stage \in {"alt", "alt2"} =>
             /\ \A a \in 1..Len(pure.body), q \in 1..Len(pure.body) :
                   (AltMatch(pure.body, a, q) /\ ~EarlierAltMatch(pure.body, a)) =>
                      pure.out = SubSeq(pure.body, a + 5, q - 1)
             /\ (\A a \in 1..Len(pure.body), q \in 1..Len(pure.body) :
                    ~AltMatch(pure.body, a, q)) => pure.out = ""
             /\ pure.stage = "alt2" => pure.out2 = pure.out
             /\ pure.body = "foo <img alt=\"bar\" src=\"x\"> baz" => pure.out = "bar")
    /\ [][pure'.body = pure.body]_vars

\* AltText has been called twice on a body with two alt="...", and has
\* returned the value of the first
C8_Witness ==
    /\ pure.stage = "alt2"
    /\ pure.body = "alt=\"a\"alt=\"\""
    /\ pure.out = "a"

\* the number of places of s where p occurs
Count(s, p) == Cardinality({i \in 1..Len(s) : At(s, i, p)})

\* C9: rewriting what the rewrite returned changes nothing; bytes with no
\* http:// in them are returned unchanged; the result holds no
\* http://xkcd.com and no http://imgs.xkcd.com, and holds an
\* https://xkcd.com for each http://xkcd.com and an https://imgs.xkcd.com for
\* each http://imgs.xkcd.com of the input, beside those the input had
C9_RewriteIdempotent ==
    /\ pure.stage = "rw2" => pure.out2 = pure.out
    /\ pure.stage \in {"rw", "rw2"} =>
          /\ ~Contains(pure.body, "http://") => pure.out = pure.body
          /\ ~Contains(pure.out, "http://xkcd.com")
          /\ ~Contains(pure.out, "http://imgs.xkcd.com")
          /\ Count(pure.out, "https://xkcd.com")
                >= Count(pure.body, "https://xkcd.com") + Count(pure.body, "http://xkcd.com")
          /\ Count(pure.out, "https://imgs.xkcd.com")
                >= Count(pure.body, "https://imgs.xkcd.com")
                      + Count(pure.body, "http://imgs.xkcd.com")

\* the rewrite has been applied twice to an http://imgs.xkcd.com beside an
\* https://
C9_Witness ==
    /\ pure.stage = "rw2"
    /\ pure.body = "https://http://imgs.xkcd.com"
    /\ pure.out = "https://https://imgs.xkcd.com"
    /\ pure.out2 = pure.out

\* C10: the Feed that the fetch path stores decodes from its serialization to
\* an equal Feed (language, title, links, id, updated, and the entries in
\* order with their title, links, updated, id, summary type and summary
\* body); a stored value decodes to the Feed returned by the miss that stored
\* it, and that is the Feed a hit returns
C10_RoundTripAcrossCache ==
    /\ [](/\ \A r \in Reqs :
                req[r].pc = "store" =>
                   /\ Unmarshal(Marshal(req[r].feed)).ok
                   /\ Unmarshal(Marshal(req[r].feed)).v = req[r].feed
          /\ cache.present =>
                Unmarshal(cache.value).ok /\ Unmarshal(cache.value).v = cache.doc)
    /\ [][\A r \in Reqs :
             /\ (req[r].pc = "store" /\ req'[r].pc # "store" /\ cache' # cache) =>
                   cache'.doc = req'[r].ret
             /\ (Looked(r) /\ req'[r].pc = "handle") =>
                   req'[r].err = "" /\ req'[r].ret = cache.doc]_vars

\* a hit has returned the Feed, escaped characters and two entries included,
\* that the other request fetched, stored and returned
C10_Witness ==
    \E r \in Reqs, s \in Reqs :
        /\ req[r].pc = "handle" /\ req[r].item = cache.value /\ req[r].gets = 0
        /\ req[s].pc = "handle" /\ req[s].sets = 1
        /\ req[r].ret = req[s].ret
        /\ req[r].ret.Title = "x & y" /\ Len(req[r].ret.Entry) = 2
        /\ cache.present /\ cache.doc = req[s].ret

\* x holds a document fetched before the one y holds
Before(o, x, y) == \E i \in 1..Len(o), j \in 1..Len(o) : i < j /\ o[i] = x /\ o[j] = y

\* request r stores its document over the entry that is there
Overwrites(r) ==
    /\ req[r].pc = "store" /\ req'[r].pc # "store"
    /\ cache.present /\ cache' # cache

\* C11: under any interleaving, when a set replaces an existing entry the new
\* value is the complete serialization of one Feed, and that Feed was fetched
\* no earlier than the one whose entry it replaces
C11_OverwritesMoveForward ==
    [][\A r \in Reqs :
          Overwrites(r) =>
             /\ cache'.value = Marshal(req[r].feed)
             /\ Unmarshal(cache'.value).ok
             /\ ~Before(order, r, "cache")]_vars

\* C12: a request that has observed a miss can perform its upstream GET
\* whatever the other requests are doing, and performs its own; when its
\* fetch chain succeeds it goes on to its own memcache.Set and returns the
\* Feed it fetched itself; so N concurrent misses make N GETs
C12_NoSingleFlight ==
    /\ [](\A r \in Reqs :
             /\ req[r].pc = "fetch" => ENABLED Fetch(r)
             /\ req[r].pc = "store" => ENABLED Store(r)
             /\ (req[r].got = "miss" /\ req[r].pc \in {"store", "handle", "done"}) =>
                   req[r].gets = 1)
    /\ [][\A r \in Reqs :
             /\ (req[r].pc = "fetch" /\ req'[r].pc # "fetch") =>
                   /\ req'[r].gets = req[r].gets + 1
                   /\ \A s \in Reqs \ {r} : req'[s] = req[s]
                   /\ req'[r].cause = "ok" =>
                         /\ req'[r].pc = "store"
                         /\ req'[r].feed = Unmarshal(Rewrite(upstream)).v
             /\ (req[r].pc = "store" /\ req'[r].pc # "store") =>
                   /\ req'[r].sets = req[r].sets + 1
                   /\ req'[r].ret = req[r].feed]_vars

\* two requests in flight at once that both missed: each has made its own
\* GET and holds the document it fetched, different from the other's, on its
\* way to its own memcache.Set
C12_Witness ==
    \E r \in Reqs, s \in Reqs :
        /\ r # s
        /\ req[r].pc = "store" /\ req[r].got = "miss" /\ req[r].gets = 1
        /\ req[s].pc = "store" /\ req[s].got = "miss" /\ req[s].gets = 1
        /\ req[r].feed # req[s].feed

\* C13: a request calls memcache.Get exactly once, as its first step; it
\* makes at most one upstream GET, and only after that Get reported a miss;
\* it calls memcache.Set at most once, and only after a GET whose rewrite and
\* parse succeeded; once its fetch chain has failed it makes no further GET
C13_NoRetryFixedOrder ==
    /\ [](\A r \in Reqs :
             /\ req[r].pc \in {"idle", "get"} =>
                   req[r].looks = 0 /\ req[r].gets = 0 /\ req[r].sets = 0
             /\ req[r].pc \in {"fetch", "store", "handle", "done"} => req[r].looks = 1
             /\ req[r].gets <= 1
             /\ req[r].gets = 1 => req[r].got = "miss"
             /\ req[r].pc = "fetch" => req[r].got = "miss" /\ req[r].gets = 0
             /\ req[r].sets <= 1
             /\ req[r].sets = 1 => req[r].gets = 1 /\ req[r].cause = "ok")
    /\ [][\A r \in Reqs :
             (req[r].cause \in FetchFailures /\ req'[r].pc # "idle") =>
                req'[r].gets = req[r].gets /\ req'[r].looks = req[r].looks]_vars

\* a request whose only GET failed and which has been answered, with no
\* second GET and no Set, beside one that made one GET and one Set
C13_Witness ==
    \E r \in Reqs, s \in Reqs :
        /\ req[r].pc = "done" /\ req[r].cause = "read" /\ req[r].looks = 1
        /\ req[r].gets = 1 /\ req[r].sets = 0
        /\ req[s].pc = "done" /\ req[s].looks = 1 /\ req[s].gets = 1 /\ req[s].sets = 1

\* what getUpstreamAtom and the decoding of a hit return as errors
Errors ==
    {"urlfetch: transport error", "http request was not OK", "failed to read response",
     "failed to unmarshal feed", "failed to unmarshal cached feed"}

\* C14: when cachingGetUpstreamAtom returns an error, from the fetch chain or
\* from the decoding of a hit, either handler answers 500 with a message that
\* holds the error's text and writes no feed and no page; the step leaves the
\* cache entry and the other requests as they are
C14_FailuresSurface ==
    /\ [](\A r \in Reqs :
             /\ (req[r].pc \in {"handle", "done"} /\ req[r].ret = Nil) =>
                   req[r].err \in Errors
             /\ (req[r].pc = "done" /\ req[r].err # "") =>
                   /\ req[r].status = 500
                   /\ At(req[r].body, Len(req[r].body) - Len(req[r].err) + 1, req[r].err)
                   /\ ~Contains(req[r].body, "<feed")
                   /\ req[r].page = <<>>
             /\ (req[r].pc = "done" /\ req[r].err = "") => req[r].status = 200)
    /\ [][\A r \in Reqs :
             (req[r].pc = "handle" /\ req[r].err # "" /\ req'[r].pc # "handle") =>
                /\ req'[r].pc = "done"
                /\ cache' = cache
                /\ \A s \in Reqs \ {r} : req'[s] = req[s]]_vars

\* an /atom.xml request that failed on the bytes of a hit and a page request
\* that failed on the parse of what it fetched, both answered with 500,
\* the cache entry still there
C14_Witness ==
    \E r \in Reqs, s \in Reqs :
        /\ req[r].pc = "done" /\ req[r].h = "atom" /\ req[r].status = 500
        /\ req[r].err = "failed to unmarshal cached feed"
        /\ req[s].pc = "done" /\ req[s].h = "main" /\ req[s].status = 500
        /\ req[s].err = "failed to unmarshal feed"
        /\ cache.present

\* s holds the http address of one of the two hosts
Insecure(s) == Contains(s, "http://xkcd.com") \/ Contains(s, "http://imgs.xkcd.com")

InsecureLinks(links) == \E i \in 1..Len(links) : Insecure(links[i].Href)

\* a link field or a Summary body of feed holds such an address
InsecureFeed(feed) ==
    \/ InsecureLinks(feed.Link)
    \/ \E i \in 1..Len(feed.Entry) :
          InsecureLinks(feed.Entry[i].Link) \/ Insecure(feed.Entry[i].Summary.Body)

\* C15: no Feed returned by cachingGetUpstreamAtom, on a miss or on a hit, and
\* no Feed whose serialization is stored under atomKey holds http://xkcd.com
\* or http://imgs.xkcd.com in a link field or in a Summary body
C15_NoInsecureAddress ==
    /\ \A r \in Reqs :
          (req[r].pc \in {"handle", "done"} /\ req[r].ret # Nil) => ~InsecureFeed(req[r].ret)
    /\ cache.present => ~InsecureFeed(cache.doc)

\* the triple mainHandler is to build for entry e
Triple(e, t) ==
    /\ t.Title = e.Title
    /\ t.Img = HtmlUnescape(e.Summary.Body)
    /\ t.Text = HtmlUnescape(AltText(e.Summary.Body))

\* C16: a page request answered with 200 has built one triple per Entry of the
\* returned Feed, in the Entry order: the title, the unescaped Summary body and
\* the unescaped AltText of the raw Summary body; for the entry "B" of UpB the
\* caption is "b &amp; c", unescaped once.  A page request that hit the cache
\* calls memcache.Set never and none of its steps changes the cache entry
C16_PageProjection ==
    /\ [](\A r \in Reqs :
             /\ Served(r, "main") =>
                   /\ Len(req[r].page) = Len(req[r].ret.Entry)
                   /\ \A i \in 1..Len(req[r].page) :
                         /\ Triple(req[r].ret.Entry[i], req[r].page[i])
                         /\ req[r].page[i].Title = "B" =>
                               /\ req[r].page[i].Text = "b &amp; c"
                               /\ At(req[r].page[i].Img, 1, "<img src=\"https://imgs.xkcd.com/b.png\"")
             /\ (req[r].h = "main" /\ req[r].got = "hit") => req[r].sets = 0)
    /\ [][\A r \in Reqs :
             (/\ req[r].h = "main" /\ req[r].got = "hit" /\ req'[r] # req[r]
              /\ \A s \in Reqs \ {r} : req'[s] = req[s]) => cache' = cache]_vars

\* a page request served from a hit on the stored UpB: two triples, the
\* first with the caption "b &amp; c", the second with an empty caption
C16_Witness ==
    \E r \in Reqs :
        /\ Served(r, "main") /\ req[r].got = "hit" /\ cache.present
        /\ Len(req[r].page) = 2
        /\ req[r].page[1].Text = "b &amp; c"
        /\ req[r].page[2] = [Title |-> "C<", Img |-> "no caption", Text |-> ""]

\* C17: with cachingGetUpstreamAtom as the only writer of atomKey, the entry
\* is absent or holds the serialization of a Feed that a request parsed from a
\* 200 response, written by that request's memcache.Set, and it decodes; no
\* hit ever fails to decode what it read, so no request ends with the error
\* of hello.go:110
C17_CacheAlwaysDecodes ==
    /\ [](/\ cache.present =>
                /\ Unmarshal(cache.value).ok
                /\ \E u \in ValidUpstreams : cache.value = Marshal(Unmarshal(Rewrite(u)).v)
          /\ \A r \in Reqs :
                /\ req[r].err # "failed to unmarshal cached feed"
                /\ req[r].item # "" =>
                      /\ Unmarshal(req[r].item).ok
                      /\ req[r].pc \in {"handle", "done"} => req[r].ret = Unmarshal(req[r].item).v)
    /\ [][(cache'.present /\ cache'.value # cache.value) =>
             \E r \in Reqs :
                /\ req[r].pc = "store" /\ req[r].cause = "ok" /\ req[r].gets = 1
                /\ cache'.value = Marshal(req[r].feed)]_vars

\* a hit has decoded the entry it read, which a later memcache.Set has since
\* replaced, and been answered with 200; the other request failed on its fetch
C17_Witness ==
    \E r \in Reqs, s \in Reqs :
        /\ req[r].pc = "done" /\ req[r].got = "hit" /\ req[r].status = 200
        /\ req[r].item # "" /\ req[r].item # cache.value /\ cache.present
        /\ req[s].pc = "done" /\ req[s].status = 500

\* C18: whenever memcache.Get returns an error, a miss (nothing stored or the
\* entry expired) or a failure of the service, cachingGetUpstreamAtom goes on
\* to the fetch with no error set, and it makes the one GET; a request is
\* answered with 500 only if its fetch chain failed or if the bytes of a
\* successful get did not decode, and after a failed get only the former
C18_CacheReadFailureNotFatal ==
    /\ [][\A r \in Reqs :
             (Looked(r) /\ req'[r].got \in {"miss", "error"}) =>
                /\ req'[r].pc = "fetch"
                /\ req'[r].err = ""
                /\ req'[r].item = ""]_vars
    /\ [](\A r \in Reqs :
             /\ (req[r].got \in {"miss", "error"} /\ req[r].pc \in {"store", "handle", "done"}) =>
                   /\ req[r].gets = 1
                   /\ req[r].err # "" <=> req[r].cause \in FetchFailures
             /\ (req[r].pc = "done" /\ req[r].status = 500) =>
                   \/ req[r].got \in {"miss", "error"} /\ req[r].cause \in FetchFailures
                   \/ /\ req[r].got = "hit" /\ req[r].gets = 0
                      /\ req[r].item # "" /\ ~Unmarshal(req[r].item).ok)

\* memcache.Get failed although a fresh entry is stored, and the request
\* fetched and was answered with 200; the other request found the entry
\* expired and was answered with 200 as well
C18_Witness ==
    \E r \in Reqs, s \in Reqs :
        /\ req[r].pc = "done" /\ req[r].got = "error" /\ req[r].status = 200
        /\ req[r].gets = 1
        /\ req[s].pc = "done" /\ req[s].got = "miss" /\ req[s].status = 200
        /\ cache.present /\ cache.age < cache.exp

\* C19: a request whose client.Get returned a response, with whatever
\* status, has closed the response body once getUpstreamAtom has returned
C19_BodyAlwaysClosed ==
    \A r \in Reqs :
        (req[r].pc \in {"store", "handle", "done"} /\ req[r].opened) => req[r].closed

=============================================================================
